---- MODULE Spec2Model ----
(***************************************************************************)
(* SimpleFS: the disk emulator (disk.c) and the filesystem layer (fs.c).   *)
(*                                                                         *)
(* A block is modelled as its 32-bit words, so that the Block union of     *)
(* fs.h (superblock / inode array / pointer array) is one value read       *)
(* through three layouts.  The block geometry is scaled: INODES_PER_BLOCK  *)
(* is 2 here (128 in fs.h), and POINTERS_PER_BLOCK and BLOCK_SIZE follow   *)
(* from it through the layout identities of the source                     *)
(* (128 inodes * 8 words = 1024 pointers = 4096 bytes).                    *)
(* Word values are kept below 2^31; the magic numbers are represented by   *)
(* their upper 16 bits.                                                    *)
(*                                                                         *)
(* The Disk structure and the backing image are inputs of the library:     *)
(* Init draws them from a bounded family of structures and images.         *)
(***************************************************************************)
EXTENDS Integers, Sequences, FiniteSets, TLC

(* ------------------------------ constants ------------------------------ *)

\* fs.h:15 (128 there; scaled)
INODES_PER_BLOCK == 2
\* fs.h:16
POINTERS_PER_INODE == 5
\* fs.h:14, 0xf0f03410 represented by its upper half 0xf0f0
MAGIC_NUMBER == 61680
\* a foreign magic number, 0xdeadbeef represented by its upper half 0xdead
BAD_MAGIC == 57005
\* fs.h:22-23: FS_FAILURE is (false), FS_SUCCESS is (true)
FS_FAILURE == 0
FS_SUCCESS == 1
\* fs.h:19-20
INODE_AVAILABLE == TRUE
INODE_UNAVAILABLE == FALSE
\* disk.h
DISK_FAILURE == -1
\* sizeof(fs->free_blocks), the size of a pointer (fs.c:287)
PointerSize == 8
\* the divisor of the inode-block ratio (fs.c:165)
InodeRatio == 10
\* number of blocks of the backing image
NFile == 4
\* a pointer value beyond any allocation of the model
WildPtr == 100

\* struct Inode of fs.h: valid, size, direct[POINTERS_PER_INODE], indirect
InodeWords == 2 + POINTERS_PER_INODE + 1
\* words of a block: the inode view of the Block union fills the block
BlockWords == INODES_PER_BLOCK * InodeWords
\* fs.h:17: the pointer view of the Block union fills the block as well
POINTERS_PER_BLOCK == BlockWords
\* disk.h: bytes of a block
BLOCK_SIZE == 4 * BlockWords

Words == 0 .. (BlockWords - 1)

CeilDiv(a, b) == (a + b - 1) \div b

RECURSIVE Pow256(_)
Pow256(n) == IF n = 0 THEN 1 ELSE 256 * Pow256(n - 1)

(* --------------------------- the Block union --------------------------- *)

ZeroBlock == [w \in Words |-> 0]

\* Block.super
SuperOf(blk) ==
  [magic_number |-> blk[0], blocks |-> blk[1], inode_blocks |-> blk[2], inodes |-> blk[3]]

\* Block.inodes[i]
InodeOf(blk, i) ==
  LET base == i * InodeWords IN
  [valid    |-> blk[base],
   size     |-> blk[base + 1],
   direct   |-> [j \in 0 .. (POINTERS_PER_INODE - 1) |-> blk[base + 2 + j]],
   indirect |-> blk[base + 2 + POINTERS_PER_INODE]]

\* Block.inodes[i] = ino
PutInode(blk, i, ino) ==
  LET base == i * InodeWords IN
  [w \in Words |->
     IF w < base \/ w >= base + InodeWords THEN blk[w]
     ELSE IF w = base THEN ino.valid
     ELSE IF w = base + 1 THEN ino.size
     ELSE IF w = base + 2 + POINTERS_PER_INODE THEN ino.indirect
     ELSE ino.direct[w - base - 2]]

\* memset(direct, 0, nbytes) on an array of little-endian 32-bit words
MemsetZero(direct, nbytes) ==
  [j \in DOMAIN direct |->
     IF 4 * (j + 1) <= nbytes THEN 0
     ELSE IF 4 * j < nbytes
          THEN (direct[j] \div Pow256(nbytes - 4 * j)) * Pow256(nbytes - 4 * j)
          ELSE direct[j]]

(* ------------------------------- disk.c -------------------------------- *)

\* the number of blocks of the backing file
FileBlocks(image) == Cardinality(DOMAIN image)

\* disk_sanity_check; data is never NULL in the callers of fs.c
disk_sanity_check(d, isnull, block) ==
  /\ ~isnull
  /\ d.fd # -1
  /\ ~(d.blocks < block)
  /\ ~(d.reads >= 1 \/ d.writes >= 1)

\* disk_read: DISK_FAILURE when the gate refuses, when lseek/read fails
\* (envfail) or when the read is short (the block lies beyond the file)
disk_read(d, isnull, image, block, envfail) ==
  IF ~disk_sanity_check(d, isnull, block) \/ envfail \/ block >= FileBlocks(image)
  THEN [ret |-> DISK_FAILURE, data |-> ZeroBlock]
  ELSE [ret |-> BLOCK_SIZE, data |-> image[block]]

\* the backing file after write() has transferred the first nwords words of
\* data to block `block`; a write beyond the end extends the file with zeros
FileWrite(image, block, data, nwords) ==
  LET n == IF nwords > 0 /\ block >= FileBlocks(image) THEN block + 1 ELSE FileBlocks(image)
      old(b) == IF b < FileBlocks(image) THEN image[b] ELSE ZeroBlock
  IN [b \in 0 .. (n - 1) |->
        IF b = block THEN [w \in Words |-> IF w < nwords THEN data[w] ELSE old(b)[w]]
        ELSE old(b)]

\* disk_write: short = -1 when write() transfers the whole block, else the
\* number of words a failed or short write() transferred
disk_write(d, isnull, image, block, data, short) ==
  IF ~disk_sanity_check(d, isnull, block)
  THEN [ret |-> DISK_FAILURE, image |-> image]
  ELSE IF short >= 0
  THEN [ret |-> DISK_FAILURE, image |-> FileWrite(image, block, data, short)]
  ELSE [ret |-> BLOCK_SIZE, image |-> FileWrite(image, block, data, BlockWords)]

(* -------------------------------- fs.c --------------------------------- *)

\* pointers to heap arrays: NULL, or the array pointed at
NullPtr == [null |-> TRUE, at |-> << >>]
PtrTo(f) == [null |-> FALSE, at |-> f]

\* an environment fault of one call: which step of the call fails, and for a
\* disk transfer the block whose transfer fails
NoFault == [kind |-> "none", block |-> 0]
Hits(fault, kind, block) == fault.kind = kind /\ fault.block = block

\* the inode slots of the inode table: INODES_PER_BLOCK * inode_blocks
fs_get_total_inodes(fs) == INODES_PER_BLOCK * fs.meta_data.inode_blocks

\* fs_count_inodes_from_block: the inodes of a block with valid == true
fs_count_inodes_from_block(blk) ==
  Cardinality({i \in 0 .. (INODES_PER_BLOCK - 1) : InodeOf(blk, i).valid = 1})

RECURSIVE CountFrom(_, _, _)
CountFrom(image, b, last) ==
  IF b > last THEN 0
  ELSE fs_count_inodes_from_block(image[b]) + CountFrom(image, b + 1, last)

\* fs_count_inodes: FS_FAILURE when a read fails, else the number of inodes
\* with valid == true in blocks 1 .. inode_blocks
fs_count_inodes(fs, d, image, fault) ==
  LET last == fs.meta_data.inode_blocks
      bad == {b \in 1 .. last :
                disk_read(d, fs.disk = "NULL", image, b, Hits(fault, "read_count", b)).ret
                  = DISK_FAILURE}
  IN IF bad # {}
     THEN [ret |-> FS_FAILURE, iofail |-> TRUE,
           log |-> <<"failed on disk_read for inode block">>]
     ELSE [ret |-> CountFrom(image, 1, last), iofail |-> FALSE, log |-> << >>]

\* inode slot p of the inode table lies in block SlotBlock(p)
SlotBlock(p) == (p \div INODES_PER_BLOCK) + 1

\* ScanInode with the indirect block itself left unmarked: only the entries
\* of the indirect block are set to false
ScanInodeSkipsIndirectBlock(ino, d, image, fault) ==
  IF ino.valid = 0 THEN [idx |-> {}, failed |-> FALSE]
  ELSE
    LET direct == {ino.direct[j] : j \in DOMAIN ino.direct} \ {0} IN
    IF ino.indirect > 0
    THEN LET r == disk_read(d, FALSE, image, ino.indirect,
                            Hits(fault, "read_indirect", ino.indirect))
         IN IF r.ret = DISK_FAILURE
            THEN [idx |-> direct, failed |-> TRUE]
            ELSE [idx |-> direct \cup ({r.data[w] : w \in Words} \ {0}),
                  failed |-> FALSE]
    ELSE [idx |-> direct, failed |-> FALSE]

\* fs_build_free_block_map, the body of the loop over the inodes of a block:
\* the indices of free_blocks it sets to false for one inode, and whether
\* the read of the inode's indirect block failed
ScanInode(ino, d, image, fault) ==
  IF ino.valid = 0 THEN [idx |-> {}, failed |-> FALSE]
  ELSE
    LET direct == {ino.direct[j] : j \in DOMAIN ino.direct} \ {0} IN
    IF ino.indirect > 0
    THEN LET r == disk_read(d, FALSE, image, ino.indirect,
                            Hits(fault, "read_indirect", ino.indirect))
         IN IF r.ret = DISK_FAILURE
            THEN [idx |-> direct \cup {ino.indirect}, failed |-> TRUE]
            ELSE [idx |-> direct \cup {ino.indirect}
                            \cup ({r.data[w] : w \in Words} \ {0}),
                  failed |-> FALSE]
    ELSE [idx |-> direct, failed |-> FALSE]

\* fs_build_free_block_map that takes a block met in two inodes for an error
\* and returns FS_FAILURE when the scan has met one
fs_build_free_block_mapFailsOnDuplicate(fs, d, image, fault) ==
  IF fault.kind = "malloc_blocks"
  THEN [ret |-> FS_FAILURE, free_blocks |-> NullPtr, oob |-> {}, ub |-> FALSE,
        iofail |-> FALSE, log |-> << >>]
  ELSE
    LET nblocks == fs.meta_data.blocks
        nib     == fs.meta_data.inode_blocks
        unread  == {b \in 1 .. nib :
                      disk_read(d, FALSE, image, b, Hits(fault, "read_blockmap", b)).ret
                        = DISK_FAILURE}
        stopB   == IF unread = {} THEN nib + 1
                   ELSE CHOOSE b \in unread : \A c \in unread : b <= c
        slots   == 0 .. (INODES_PER_BLOCK * (stopB - 1) - 1)
        scan(p) == ScanInode(InodeOf(image[SlotBlock(p)], p % INODES_PER_BLOCK),
                             d, image, fault)
        failing == {p \in slots : scan(p).failed}
        stopP   == IF failing = {} THEN INODES_PER_BLOCK * (stopB - 1)
                   ELSE CHOOSE p \in failing : \A q \in failing : p <= q
        seen    == {q \in slots : q <= stopP}
        marks   == {0} \cup {1 + i : i \in 0 .. (nib - 1)}
                   \cup UNION {scan(p).idx : p \in seen}
        twice   == \E p \in seen : \E q \in seen :
                     p # q /\ scan(p).idx \cap scan(q).idx # {}
        failed  == failing # {} \/ unread # {}
    IN [ret |-> IF failed \/ twice THEN FS_FAILURE ELSE FS_SUCCESS,
        free_blocks |-> PtrTo([i \in 0 .. (nblocks - 1) |-> i \notin marks]),
        oob |-> {i \in marks : i >= nblocks},
        ub |-> \E i \in marks : i >= nblocks * PointerSize,
        iofail |-> failed,
        log |-> IF failed THEN <<"failed on disk_read">> ELSE << >>]

\* fs_build_free_block_map.  The scan visits the inode blocks in order and
\* returns at the first read that fails: stopB is the first inode block that
\* cannot be read, stopP the first slot whose indirect block cannot be read.
\* oob: the indices written that are not below blocks; ub: an index written
\* lies beyond the blocks * sizeof(fs->free_blocks) bytes malloc returned
fs_build_free_block_map(fs, d, image, fault) ==
  IF fault.kind = "malloc_blocks"
  THEN [ret |-> FS_FAILURE, free_blocks |-> NullPtr, oob |-> {}, ub |-> FALSE,
        iofail |-> FALSE, log |-> << >>]
  ELSE
    LET nblocks == fs.meta_data.blocks
        nib     == fs.meta_data.inode_blocks
        unread  == {b \in 1 .. nib :
                      disk_read(d, FALSE, image, b, Hits(fault, "read_blockmap", b)).ret
                        = DISK_FAILURE}
        stopB   == IF unread = {} THEN nib + 1
                   ELSE CHOOSE b \in unread : \A c \in unread : b <= c
        slots   == 0 .. (INODES_PER_BLOCK * (stopB - 1) - 1)
        scan(p) == ScanInode(InodeOf(image[SlotBlock(p)], p % INODES_PER_BLOCK),
                             d, image, fault)
        failing == {p \in slots : scan(p).failed}
        stopP   == IF failing = {} THEN INODES_PER_BLOCK * (stopB - 1)
                   ELSE CHOOSE p \in failing : \A q \in failing : p <= q
        marks   == {0} \cup {1 + i : i \in 0 .. (nib - 1)}
                   \cup UNION {scan(p).idx : p \in {q \in slots : q <= stopP}}
        failed  == failing # {} \/ unread # {}
    IN [ret |-> IF failed THEN FS_FAILURE ELSE FS_SUCCESS,
        free_blocks |-> PtrTo([i \in 0 .. (nblocks - 1) |-> i \notin marks]),
        oob |-> {i \in marks : i >= nblocks},
        ub |-> \E i \in marks : i >= nblocks * PointerSize,
        iofail |-> failed,
        log |-> IF failed THEN <<"failed on disk_read">> ELSE << >>]

\* fs_build_free_inode_map.  When a read fails the entries of that block and
\* of the blocks after it keep what malloc returned (junk)
fs_build_free_inode_map(fs, d, image, fault, junk) ==
  IF fault.kind = "malloc_inodes"
  THEN [ret |-> FS_FAILURE, free_inodes |-> NullPtr, iofail |-> FALSE,
        log |-> <<"failed to malloc fs->free_indoes">>]
  ELSE
    LET nib == fs.meta_data.inode_blocks
        bad == {b \in 1 .. nib :
                  disk_read(d, FALSE, image, b, Hits(fault, "read_inodemap", b)).ret
                    = DISK_FAILURE}
        stop == IF bad = {} THEN nib + 1 ELSE CHOOSE b \in bad : \A c \in bad : b <= c
        entry(n) ==
          IF n < INODES_PER_BLOCK * (stop - 1)
          THEN IF InodeOf(image[(n \div INODES_PER_BLOCK) + 1], n % INODES_PER_BLOCK).valid = 1
               THEN INODE_UNAVAILABLE ELSE INODE_AVAILABLE
          ELSE junk[n]
    IN [ret |-> IF bad = {} THEN FS_SUCCESS ELSE FS_FAILURE,
        free_inodes |-> PtrTo([n \in 0 .. (INODES_PER_BLOCK * nib - 1) |-> entry(n)]),
        iofail |-> bad # {},
        log |-> IF bad = {} THEN << >> ELSE <<"failed on disk_read">>]

\* fs_mount
fs_mount(fs, d, image, fault, junk) ==
  IF d.mounted
  THEN [fs |-> fs, disk |-> d, ret |-> FS_FAILURE, oob |-> {}, ub |-> FALSE,
        iofail |-> FALSE, log |-> <<"disk is already mounted">>]
  ELSE
    LET fs1 == [fs EXCEPT !.disk = "disk", !.meta_data.blocks = d.blocks]
        r0  == disk_read(d, FALSE, image, 0, Hits(fault, "read_super", 0))
    IN
    IF r0.ret = DISK_FAILURE
    THEN [fs |-> fs1, disk |-> d, ret |-> FS_FAILURE, oob |-> {}, ub |-> FALSE,
          iofail |-> TRUE, log |-> <<"failed on disk_read for superblock">>]
    ELSE
      LET sb  == SuperOf(r0.data)
          l1  == IF sb.magic_number # MAGIC_NUMBER THEN <<"wrong magic number">> ELSE << >>
          fs2 == [fs1 EXCEPT !.meta_data =
                    [sb EXCEPT !.inode_blocks = CeilDiv(sb.blocks, InodeRatio)]]
          cnt == fs_count_inodes(fs2, d, image, fault)
      IN
      IF cnt.ret = FS_FAILURE
      THEN [fs |-> fs2, disk |-> d, ret |-> FS_FAILURE, oob |-> {}, ub |-> FALSE,
            iofail |-> cnt.iofail,
            log |-> l1 \o cnt.log \o <<"failed on fs_count_inodes">>]
      ELSE
        LET fs3 == [fs2 EXCEPT !.meta_data.inodes = cnt.ret]
            bm  == fs_build_free_block_map(fs3, d, image, fault)
            fs4 == [fs3 EXCEPT !.free_blocks = bm.free_blocks]
        IN
        IF bm.ret = FS_FAILURE
        THEN [fs |-> fs4, disk |-> d, ret |-> FS_FAILURE, oob |-> bm.oob, ub |-> bm.ub,
              iofail |-> bm.iofail,
              log |-> l1 \o bm.log \o <<"failed on fs_build_free_block_map">>]
        ELSE
          LET im  == fs_build_free_inode_map(fs4, d, image, fault, junk)
              fs5 == [fs4 EXCEPT !.free_inodes = im.free_inodes]
          IN
          IF im.ret = FS_FAILURE
          THEN [fs |-> fs5, disk |-> d, ret |-> FS_FAILURE, oob |-> bm.oob, ub |-> bm.ub,
                iofail |-> im.iofail,
                log |-> l1 \o im.log \o <<"failed on fs_build_free_inode_map">>]
          ELSE [fs |-> fs5, disk |-> [d EXCEPT !.mounted = TRUE], ret |-> FS_SUCCESS,
                oob |-> bm.oob, ub |-> bm.ub, iofail |-> FALSE, log |-> l1]

\* fs_find_first_available_inode.  crash: the scan dereferences a NULL
\* free_inodes
fs_find_first_available_inode(fs) ==
  LET total == INODES_PER_BLOCK * fs.meta_data.inode_blocks
      avail == {i \in 0 .. (total - 1) : fs.free_inodes.at[i] = INODE_AVAILABLE}
  IN IF total > 0 /\ fs.free_inodes.null THEN [ret |-> FS_FAILURE, crash |-> TRUE]
     ELSE IF avail = {} THEN [ret |-> FS_FAILURE, crash |-> FALSE]
     ELSE [ret |-> CHOOSE i \in avail : \A j \in avail : i <= j, crash |-> FALSE]

\* fs_mark_inode_status
fs_mark_inode_status(fs, inode_num, available) ==
  IF inode_num >= fs_get_total_inodes(fs) THEN fs
  ELSE [fs EXCEPT !.free_inodes.at[inode_num] = available]

\* CreateAt with the inode counted and marked before the block is written:
\* a failed write leaves the bitmap updated
CreateAtMarksBeforeWrite(fs, d, image, fault, short, res) ==
  LET block_idx == (res \div INODES_PER_BLOCK) + 1
      cur_idx   == res % INODES_PER_BLOCK
      rd == disk_read(d, fs.disk = "NULL", image, block_idx, fault.kind = "read_create")
      marked == fs_mark_inode_status(
                  [fs EXCEPT !.meta_data.inodes = @ + 1], res, INODE_UNAVAILABLE)
  IN
  IF rd.ret = DISK_FAILURE
  THEN [fs |-> fs, image |-> image, ret |-> FS_FAILURE, crash |-> FALSE, iofail |-> TRUE,
        log |-> <<"failed on disk_read at block_index">>]
  ELSE
    LET old == InodeOf(rd.data, cur_idx)
        new == [old EXCEPT !.valid = 1, !.size = 0,
                           !.direct = MemsetZero(@, POINTERS_PER_INODE)]
        wr  == disk_write(d, fs.disk = "NULL", image, block_idx,
                          PutInode(rd.data, cur_idx, new),
                          IF fault.kind = "write_create" THEN short ELSE -1)
    IN
    IF wr.ret = DISK_FAILURE
    THEN [fs |-> marked, image |-> wr.image, ret |-> FS_FAILURE, crash |-> FALSE,
          iofail |-> TRUE, log |-> <<"failed on disk_write at block_index">>]
    ELSE [fs |-> marked, image |-> wr.image, ret |-> res, crash |-> FALSE,
          iofail |-> FALSE, log |-> << >>]

\* CreateAt without the read of the inode block: the inode is set in a zeroed
\* buffer, and the block written holds nothing else
CreateAtWritesAFreshBlock(fs, d, image, fault, short, res) ==
  LET block_idx == (res \div INODES_PER_BLOCK) + 1
      cur_idx   == res % INODES_PER_BLOCK
      new == [InodeOf(ZeroBlock, cur_idx) EXCEPT !.valid = 1]
      wr  == disk_write(d, fs.disk = "NULL", image, block_idx,
                        PutInode(ZeroBlock, cur_idx, new),
                        IF fault.kind = "write_create" THEN short ELSE -1)
  IN
  IF fault.kind = "read_create"
  THEN [fs |-> fs, image |-> image, ret |-> FS_FAILURE, crash |-> FALSE, iofail |-> TRUE,
        log |-> <<"failed on disk_read at block_index">>]
  ELSE IF wr.ret = DISK_FAILURE
  THEN [fs |-> fs, image |-> wr.image, ret |-> FS_FAILURE, crash |-> FALSE,
        iofail |-> TRUE, log |-> <<"failed on disk_write at block_index">>]
  ELSE [fs |-> fs_mark_inode_status(
                 [fs EXCEPT !.meta_data.inodes = @ + 1], res, INODE_UNAVAILABLE),
        image |-> wr.image, ret |-> res, crash |-> FALSE, iofail |-> FALSE,
        log |-> << >>]

\* fs_create, after the search has found slot res: read the inode block, set
\* the inode, write the block back, count and mark the inode
CreateAt(fs, d, image, fault, short, res) ==
  LET block_idx == (res \div INODES_PER_BLOCK) + 1
      cur_idx   == res % INODES_PER_BLOCK
      rd == disk_read(d, fs.disk = "NULL", image, block_idx, fault.kind = "read_create")
  IN
  IF rd.ret = DISK_FAILURE
  THEN [fs |-> fs, image |-> image, ret |-> FS_FAILURE, crash |-> FALSE, iofail |-> TRUE,
        log |-> <<"failed on disk_read at block_index">>]
  ELSE
    LET old == InodeOf(rd.data, cur_idx)
        new == [old EXCEPT !.valid = 1, !.size = 0,
                           !.direct = MemsetZero(@, POINTERS_PER_INODE)]
        wr  == disk_write(d, fs.disk = "NULL", image, block_idx,
                          PutInode(rd.data, cur_idx, new),
                          IF fault.kind = "write_create" THEN short ELSE -1)
    IN
    IF wr.ret = DISK_FAILURE
    THEN [fs |-> fs, image |-> wr.image, ret |-> FS_FAILURE, crash |-> FALSE,
          iofail |-> TRUE, log |-> <<"failed on disk_write at block_index">>]
    ELSE [fs |-> fs_mark_inode_status(
                   [fs EXCEPT !.meta_data.inodes = @ + 1], res, INODE_UNAVAILABLE),
          image |-> wr.image, ret |-> res, crash |-> FALSE, iofail |-> FALSE,
          log |-> << >>]

\* fs_create without the test of the search result: the inode the search
\* returned is set up whatever its number
fs_createTrustsTheSearch(fs, d, image, fault, short) ==
  LET max_inodes == INODES_PER_BLOCK * fs.meta_data.inode_blocks
      quiet(log, crash) ==
        [fs |-> fs, image |-> image, ret |-> FS_FAILURE, crash |-> crash,
         iofail |-> FALSE, log |-> log]
  IN
  IF fs.meta_data.inodes >= max_inodes
  THEN quiet(<<"failed on fs_create: exceed max num of inodes">>, FALSE)
  ELSE
    LET found == fs_find_first_available_inode(fs) IN
    IF found.crash THEN quiet(<< >>, TRUE)
    ELSE CreateAt(fs, d, image, fault, short, found.ret)

\* fs_create
fs_create(fs, d, image, fault, short) ==
  LET max_inodes == INODES_PER_BLOCK * fs.meta_data.inode_blocks
      quiet(log, crash) ==
        [fs |-> fs, image |-> image, ret |-> FS_FAILURE, crash |-> crash,
         iofail |-> FALSE, log |-> log]
  IN
  IF fs.meta_data.inodes >= max_inodes
  THEN quiet(<<"failed on fs_create: exceed max num of inodes">>, FALSE)
  ELSE
    LET found == fs_find_first_available_inode(fs) IN
    IF found.crash THEN quiet(<< >>, TRUE)
    ELSE IF found.ret = FS_FAILURE
    THEN quiet(<<"failed on fs_find_first_available_inode">>, FALSE)
    ELSE CreateAt(fs, d, image, fault, short, found.ret)

\* fs_debug with the inode blocks transferred by disk_write where disk_read
\* was meant: the buffer holding the superblock lands on each inode block
fs_debugWritesInodeBlocks(d, image, fault) ==
  LET r0 == disk_read(d, FALSE, image, 0, Hits(fault, "read_debug", 0)) IN
  IF r0.ret = DISK_FAILURE
  THEN [log |-> <<"failed on disk_read for superblock">>, iofail |-> TRUE,
        printed |-> << >>, image |-> image, disk |-> d]
  ELSE
    LET sb == SuperOf(r0.data)
        w1 == disk_write(d, FALSE, image, 1, r0.data, -1)
    IN IF sb.inode_blocks >= 1 /\ ~Hits(fault, "read_debug", 1)
       THEN [log |-> << >>, iofail |-> FALSE,
             printed |-> [p \in 1 .. INODES_PER_BLOCK |-> InodeOf(r0.data, p - 1).valid],
             image |-> w1.image, disk |-> d]
       ELSE [log |-> <<"failed on disk_read at inodeBlockOffSet">>, iofail |-> TRUE,
             printed |-> << >>, image |-> image, disk |-> d]

\* fs_debug: reads block 0 and then the sb.inode_blocks blocks the superblock
\* on disk names, and returns at the first read that fails.  printed: the
\* valid fields it prints; image and disk: the file and the Disk on return
fs_debug(d, image, fault) ==
  LET r0 == disk_read(d, FALSE, image, 0, Hits(fault, "read_debug", 0)) IN
  IF r0.ret = DISK_FAILURE
  THEN [log |-> <<"failed on disk_read for superblock">>, iofail |-> TRUE,
        printed |-> << >>, image |-> image, disk |-> d]
  ELSE
    LET sb     == SuperOf(r0.data)
        unread == {b \in 1 .. sb.inode_blocks :
                     disk_read(d, FALSE, image, b, Hits(fault, "read_debug", b)).ret
                       = DISK_FAILURE}
        stop   == IF unread = {} THEN sb.inode_blocks + 1
                  ELSE CHOOSE b \in unread : \A c \in unread : b <= c
    IN [log |-> IF unread = {} THEN << >>
                ELSE <<"failed on disk_read at inodeBlockOffSet">>,
        iofail |-> unread # {},
        printed |-> [p \in 1 .. (INODES_PER_BLOCK * (stop - 1)) |->
                       InodeOf(image[SlotBlock(p - 1)], (p - 1) % INODES_PER_BLOCK).valid],
        image |-> image, disk |-> d]

\* fs_format: returns false
fs_format(d, image) == [ret |-> 0, image |-> image, disk |-> d]

\* fs_unmount: an empty body
fs_unmount(fs, d) == [fs |-> fs, disk |-> d]

\* fs_remove: returns false
fs_remove(fs, d, image, inode_number) == [ret |-> 0, fs |-> fs, image |-> image]

\* fs_stat: returns -1
fs_stat(fs, d, image, inode_number) == -1

\* fs_read: returns -1 and leaves the buffer as it was
fs_read(fs, d, image, inode_number, data, length, offset) == [ret |-> -1, data |-> data]

\* fs_write: returns -1
fs_write(fs, d, image, inode_number, data, length, offset) ==
  [ret |-> -1, fs |-> fs, image |-> image]

\* disk_open: the Disk structure it returns.  malloc does not initialise the
\* structure, so reads and writes are one more than whatever the memory held
disk_open(blocks, fd, junkReads, junkWrites) ==
  [fd |-> fd, blocks |-> BLOCK_SIZE, reads |-> junkReads + 1, writes |-> junkWrites + 1,
   mounted |-> TRUE]

\* ftruncate(fd, blocks * BLOCK_SIZE)
Truncate(image, blocks) ==
  [b \in 0 .. (blocks - 1) |-> IF b < FileBlocks(image) THEN image[b] ELSE ZeroBlock]

(* ------------------------------ the state ------------------------------ *)

VARIABLES
  disk,     \* the Disk structure
  image,    \* the backing file, block by block
  fs,       \* the FileSystem structure
  call,     \* the last call: operation, argument, result, errors logged
  crashed   \* the process was ended by a signal

vars == <<disk, image, fs, call, crashed>>

\* a record of the last call: data is the caller's buffer after the call, or
\* what the call printed
Call(op, arg, r) ==
  [op |-> op, arg |-> arg, ret |-> r.ret, log |-> r.log, iofail |-> r.iofail,
   oob |-> r.oob, ub |-> r.ub, data |-> << >>]

\* the record of a call that scans no bitmap
Plain(op, arg, ret, log, iofail, data) ==
  [op |-> op, arg |-> arg, ret |-> ret, log |-> log, iofail |-> iofail,
   oob |-> {}, ub |-> FALSE, data |-> data]

(* ------------------------- the initial states -------------------------- *)

Inode(valid, size, direct, indirect) ==
  [valid |-> valid, size |-> size,
   direct |-> [j \in 0 .. (POINTERS_PER_INODE - 1) |->
                 IF j < Len(direct) THEN direct[j + 1] ELSE 0],
   indirect |-> indirect]

\* inode records found in the slots of the images
InodeTemplates ==
  { Inode(0, 0, << >>, 0),                       \* a free slot
    Inode(1, 1, <<NFile - 1>>, 0),               \* a file with one direct block
    Inode(1, 1, << >>, NFile - 1),               \* a file with an indirect block
    Inode(2, 1, <<2>>, 0),                       \* valid is neither 0 nor 1
    Inode(0, 7, <<NFile - 1, 259, NFile - 1>>, NFile - 1),  \* free, stale pointers
    Inode(1, 1, <<WildPtr, NFile + 1>>, 0) }     \* pointers beyond the disk

SuperBlk(magic, blocks, inode_blocks, inodes) ==
  [w \in Words |->
     IF w = 0 THEN magic ELSE IF w = 1 THEN blocks
     ELSE IF w = 2 THEN inode_blocks ELSE IF w = 3 THEN inodes ELSE 0]

\* superblocks: as format is specified to write it; one that claims more
\* blocks (and so a second inode block); a foreign magic number; inode
\* fields that differ from what mount computes
HonestSuper ==
  SuperBlk(MAGIC_NUMBER, NFile, CeilDiv(NFile, InodeRatio),
           CeilDiv(NFile, InodeRatio) * INODES_PER_BLOCK)

SuperBlocks ==
  { HonestSuper,
    SuperBlk(MAGIC_NUMBER, InodeRatio + 1, 2, 2 * INODES_PER_BLOCK),
    SuperBlk(BAD_MAGIC, NFile, CeilDiv(NFile, InodeRatio),
             CeilDiv(NFile, InodeRatio) * INODES_PER_BLOCK),
    SuperBlk(MAGIC_NUMBER, NFile, 3, 0) }

InodeBlk(i0, i1) == PutInode(PutInode(ZeroBlock, 0, i0), 1, i1)

PtrBlk(ptrs) == [w \in Words |-> IF w < Len(ptrs) THEN ptrs[w + 1] ELSE 0]

\* block 2: a data block, or the second inode block
SecondBlocks == { ZeroBlock, InodeBlk(Inode(1, 1, <<NFile - 1>>, 0), Inode(0, 0, << >>, 0)) }

\* the last block: a data block, or an indirect block
LastBlocks == { ZeroBlock, PtrBlk(<<2, NFile - 1>>) }

Free == Inode(0, 0, << >>, 0)
File == Inode(1, 1, <<NFile - 1>>, 0)

Image(sb, i0, i1, b2, b3) ==
  [b \in 0 .. (NFile - 1) |->
     IF b = 0 THEN sb
     ELSE IF b = 1 THEN InodeBlk(i0, i1)
     ELSE IF b = 2 THEN b2
     ELSE IF b = NFile - 1 THEN b3
     ELSE ZeroBlock]

\* the images: every pair of templates under the superblock of a formatted
\* disk, and files and free slots under each of the other superblocks
Images ==
  { Image(HonestSuper, i0, i1, ZeroBlock, b3) :
      i0 \in InodeTemplates, i1 \in InodeTemplates, b3 \in LastBlocks }
  \cup
  { Image(sb, i0, i1, b2, ZeroBlock) :
      sb \in SuperBlocks, i0 \in {Free, File}, i1 \in {Free, File}, b2 \in SecondBlocks }

\* Disk structures: ready; already mounted; with a counter at 1; closed
ReadyDisk == [fd |-> 3, blocks |-> NFile, reads |-> 0, writes |-> 0, mounted |-> FALSE]

Disks ==
  { ReadyDisk,
    [ReadyDisk EXCEPT !.mounted = TRUE],
    [ReadyDisk EXCEPT !.reads = 1],
    [ReadyDisk EXCEPT !.fd = -1] }

NoCall ==
  [op |-> "none", arg |-> 0, ret |-> 0, log |-> << >>, iofail |-> FALSE,
   oob |-> {}, ub |-> FALSE, data |-> << >>]

Init ==
  /\ \/ disk = ReadyDisk /\ image \in Images
     \/ disk \in Disks /\ image = Image(HonestSuper, File, Free, ZeroBlock, ZeroBlock)
  /\ fs = [disk |-> "NULL", free_blocks |-> NullPtr, free_inodes |-> NullPtr,
           meta_data |-> [magic_number |-> 0, blocks |-> 0, inode_blocks |-> 0,
                          inodes |-> 0]]
  /\ call = NoCall
  /\ crashed = FALSE

(* ----------------------------- the actions ----------------------------- *)

\* the faults of a mount: none; the superblock read; an allocation; the read
\* of an inode block in one of the three passes; the read of an indirect block
MountFaults ==
  {NoFault}
  \cup {[kind |-> k, block |-> 0] : k \in {"read_super", "malloc_blocks", "malloc_inodes"}}
  \cup {[kind |-> k, block |-> b] :
          k \in {"read_count", "read_blockmap", "read_inodemap"}, b \in {1, 2}}
  \cup {[kind |-> "read_indirect", block |-> NFile - 1]}

\* what malloc's memory holds in the entries free_inodes never got: all
\* bytes zero, or all bytes one
Junk(fault, n) ==
  IF fault.kind = "read_inodemap"
  THEN {[i \in 0 .. (n - 1) |-> v] : v \in BOOLEAN}
  ELSE {[i \in 0 .. (n - 1) |-> FALSE]}

\* the record of a call that the process did not survive
Killed(op) ==
  [op |-> op, arg |-> 0, ret |-> -1, log |-> <<"killed by a signal">>, iofail |-> FALSE,
   oob |-> {}, ub |-> TRUE, data |-> << >>]

\* fs_mount(fs, disk).  A store beyond the allocation of free_blocks is
\* undefined: the call either goes on as if nothing was hit, or the process
\* is killed
FsMount ==
  /\ ~crashed
  /\ \E fault \in MountFaults :
       \E junk \in Junk(fault, INODES_PER_BLOCK * CeilDiv(SuperOf(image[0]).blocks, InodeRatio)) :
         LET r == fs_mount(fs, disk, image, fault, junk) IN
         \/ /\ fs' = r.fs
            /\ disk' = r.disk
            /\ call' = Call("fs_mount", 0, r)
            /\ crashed' = FALSE
         \/ /\ r.ub
            /\ call' = Killed("fs_mount")
            /\ crashed' = TRUE
            /\ UNCHANGED <<fs, disk>>
  /\ UNCHANGED image

CreateFaults ==
  {NoFault, [kind |-> "read_create", block |-> 0], [kind |-> "write_create", block |-> 0]}

\* how many words a failed write() has transferred: none, the first word of
\* the block, or the words up to the valid field of the second inode
ShortWrites == {0, 1, InodeWords + 1}

\* fs_create(fs).  The process is killed when the search dereferences a
\* NULL free_inodes
FsCreate ==
  /\ ~crashed
  /\ \E fault \in CreateFaults :
       \E short \in (IF fault.kind = "write_create" THEN ShortWrites ELSE {-1}) :
         LET r == fs_create(fs, disk, image, fault, short) IN
         IF r.crash
         THEN /\ call' = Killed("fs_create")
              /\ crashed' = TRUE
              /\ UNCHANGED <<fs, image>>
         ELSE /\ fs' = r.fs
              /\ image' = r.image
              /\ call' = Plain("fs_create", 0, r.ret, r.log, r.iofail, << >>)
              /\ crashed' = FALSE
  /\ UNCHANGED disk

\* disk_open(path, blocks), before a filesystem refers to the disk
DiskOpen ==
  /\ ~crashed
  /\ fs.disk = "NULL"
  /\ \E blocks \in {NFile - 1, NFile} :
       \E outcome \in {"ok", "malloc", "open", "ftruncate"} :
         \E jr \in {-1, 0} : \E jw \in {-1, 0} :
           /\ IF outcome = "ok"
              THEN /\ disk' = disk_open(blocks, 3, jr, jw)
                   /\ image' = Truncate(image, blocks)
                   /\ call' = Call("disk_open", blocks,
                                   [ret |-> 1, log |-> << >>, iofail |-> FALSE,
                                    oob |-> {}, ub |-> FALSE])
              ELSE /\ UNCHANGED <<disk, image>>
                   /\ call' = Call("disk_open", blocks,
                                   [ret |-> 0, log |-> <<"failed">>, iofail |-> FALSE,
                                    oob |-> {}, ub |-> FALSE])
  /\ UNCHANGED <<fs, crashed>>

\* the faults of fs_debug: none, or the read of the first inode block fails
DebugFaults == {NoFault, [kind |-> "read_debug", block |-> 1]}

\* fs_debug(disk), on a disk no filesystem was given or on a mounted one
FsDebug ==
  /\ ~crashed
  /\ fs.disk = "NULL" \/ disk.mounted
  /\ \E fault \in DebugFaults :
       LET r == fs_debug(disk, image, fault) IN
       /\ image' = r.image
       /\ disk' = r.disk
       /\ call' = Plain("fs_debug", 0, 0, r.log, r.iofail, r.printed)
  /\ UNCHANGED <<fs, crashed>>

\* fs_format(disk), before the disk is mounted ("Do not format a mounted
\* Disk!") or given to a filesystem
FsFormat ==
  /\ ~crashed
  /\ fs.disk = "NULL" /\ ~disk.mounted
  /\ LET r == fs_format(disk, image) IN
       /\ image' = r.image
       /\ disk' = r.disk
       /\ call' = Plain("fs_format", 0, r.ret, << >>, FALSE, << >>)
  /\ UNCHANGED <<fs, crashed>>

\* the calls on files and fs_unmount are made on a filesystem that refers to
\* a disk carrying the mounted flag
Attached == fs.disk = "disk" /\ disk.mounted

\* fs_unmount(fs)
FsUnmount ==
  /\ ~crashed
  /\ Attached
  /\ LET r == fs_unmount(fs, disk) IN
       /\ fs' = r.fs
       /\ disk' = r.disk
       /\ call' = Plain("fs_unmount", 0, 0, << >>, FALSE, << >>)
  /\ UNCHANGED <<image, crashed>>

\* the inode numbers the callers pass
InodeNumbers == 0 .. (INODES_PER_BLOCK - 1)

\* fs_remove(fs, inode_number)
FsRemove ==
  /\ ~crashed
  /\ Attached
  /\ \E n \in InodeNumbers :
       LET r == fs_remove(fs, disk, image, n) IN
       /\ fs' = r.fs
       /\ image' = r.image
       /\ call' = Plain("fs_remove", n, r.ret, << >>, FALSE, << >>)
  /\ UNCHANGED <<disk, crashed>>

\* fs_stat(fs, inode_number)
FsStat ==
  /\ ~crashed
  /\ Attached
  /\ \E n \in InodeNumbers :
       call' = Plain("fs_stat", n, fs_stat(fs, disk, image, n), << >>, FALSE, << >>)
  /\ UNCHANGED <<disk, image, fs, crashed>>

\* the buffers of fs_read and fs_write, byte by byte; the transfers are of
\* Len(buffer) bytes at offset 0
ReadBuffer == <<7>>
WriteBuffer == <<9>>

\* fs_read(fs, inode_number, data, length, offset)
FsRead ==
  /\ ~crashed
  /\ Attached
  /\ \E n \in InodeNumbers :
       LET r == fs_read(fs, disk, image, n, ReadBuffer, Len(ReadBuffer), 0) IN
       call' = Plain("fs_read", n, r.ret, << >>, FALSE, r.data)
  /\ UNCHANGED <<disk, image, fs, crashed>>

\* fs_write(fs, inode_number, data, length, offset)
FsWrite ==
  /\ ~crashed
  /\ Attached
  /\ \E n \in InodeNumbers :
       LET r == fs_write(fs, disk, image, n, WriteBuffer, Len(WriteBuffer), 0) IN
       /\ fs' = r.fs
       /\ image' = r.image
       /\ call' = Plain("fs_write", n, r.ret, << >>, FALSE, WriteBuffer)
  /\ UNCHANGED <<disk, crashed>>

\* the blocks of the direct transfers: inside the disk, the block whose
\* number is the block count, and the block after it
DirectBlocks == {NFile - 1, disk.blocks, disk.blocks + 1}

\* the holder of a Disk transfers blocks directly while no filesystem refers
\* to the disk; the Disk is as disk_open leaves it, its mounted flag set

\* disk_read(disk, block, data)
DiskRead ==
  /\ ~crashed
  /\ fs.disk = "NULL" /\ disk.mounted
  /\ \E block \in DirectBlocks :
       LET r == disk_read(disk, FALSE, image, block, FALSE) IN
       call' = Plain("disk_read", block, r.ret, << >>, r.ret = DISK_FAILURE, r.data)
  /\ UNCHANGED <<disk, image, fs, crashed>>

\* disk_write(disk, block, data), the buffer holding zeros
DiskWrite ==
  /\ ~crashed
  /\ fs.disk = "NULL" /\ disk.mounted
  /\ \E block \in DirectBlocks :
       LET r == disk_write(disk, FALSE, image, block, ZeroBlock, -1) IN
       /\ image' = r.image
       /\ call' = Plain("disk_write", block, r.ret, << >>, r.ret = DISK_FAILURE, ZeroBlock)
  /\ UNCHANGED <<disk, fs, crashed>>

Next ==
  \/ FsMount \/ FsCreate \/ DiskOpen
  \/ DiskRead \/ DiskWrite
  \/ FsDebug \/ FsFormat \/ FsUnmount
  \/ FsRemove \/ FsStat \/ FsRead \/ FsWrite

Spec == Init /\ [][Next]_vars

(* ------------------------------ the claims ----------------------------- *)

\* a filesystem is mounted: the disk carries the token and fs refers to it
IsMounted == disk.mounted /\ fs.disk = "disk" /\ ~crashed

\* the available slots of a free_inodes bitmap
Available(f) == {i \in DOMAIN f.free_inodes.at : f.free_inodes.at[i] = INODE_AVAILABLE}

Lowest(S) == CHOOSE i \in S : \A j \in S : i <= j

\* the on-disk inode of slot i
DiskInode(img, i) == InodeOf(img[SlotBlock(i)], i % INODES_PER_BLOCK)

\* C1: on a mounted filesystem, fs_create whose disk transfers succeed returns
\* the lowest available slot of free_inodes as the inode it created (no error
\* is logged and the slot is reserved); when no slot is available it returns
\* FS_FAILURE and changes neither the disk nor the bitmap.
C1_CreateReturnsLowestFree ==
  [][(IsMounted /\ call'.op = "fs_create" /\ ~crashed' /\ ~call'.iofail) =>
       IF Available(fs) # {}
       THEN /\ call'.ret = Lowest(Available(fs))
            /\ call'.log = << >>
            /\ fs'.free_inodes.at[Lowest(Available(fs))] = INODE_UNAVAILABLE
       ELSE /\ call'.ret = FS_FAILURE
            /\ image' = image
            /\ fs'.free_inodes = fs.free_inodes]_vars

\* C2: an inode number returned by a successful fs_create is below the
\* meta_data.inodes the filesystem held when the call was made.
C2_CreatedInodeBelowInodes ==
  [][(call'.op = "fs_create" /\ ~crashed' /\ call'.ret # FS_FAILURE) =>
       (0 <= call'.ret /\ call'.ret < fs.meta_data.inodes)]_vars

\* C3: when the disk read or the disk write of fs_create fails, fs_create
\* returns FS_FAILURE and the FileSystem structure (free_inodes, free_blocks,
\* meta_data, disk) is as it was before the call.
C3_FailedTransferLeavesFsUnchanged ==
  [][(call'.op = "fs_create" /\ call'.iofail) =>
       (call'.ret = FS_FAILURE /\ fs' = fs)]_vars

\* C3 witness: on a mounted filesystem the write of fs_create has just failed
\* after transferring part of the block
C3_Witness ==
  /\ IsMounted
  /\ call.op = "fs_create"
  /\ call.iofail
  /\ call.log = <<"failed on disk_write at block_index">>
  /\ \E i \in Available(fs) : DiskInode(image, i).valid = 1

\* C4: fs_mount on an unmounted disk whose block 0 holds a magic number other
\* than MAGIC_NUMBER returns failure, and the disk is not mounted afterwards.
C4_ForeignMagicIsRejected ==
  [][(call'.op = "fs_mount" /\ ~crashed' /\ ~disk.mounted
        /\ SuperOf(image[0]).magic_number # MAGIC_NUMBER) =>
       (call'.ret = FS_FAILURE /\ ~disk'.mounted)]_vars

\* C5: fs_mount on a mounted disk fails and changes neither the disk nor the
\* filesystem, and the mounted flag becomes true only through a successful
\* fs_mount.
C5_MountedIsTheToken ==
  [][/\ (call'.op = "fs_mount" /\ ~crashed' /\ disk.mounted) =>
          (call'.ret = FS_FAILURE /\ disk' = disk /\ fs' = fs /\ image' = image)
     /\ (~disk.mounted /\ disk'.mounted) =>
          (call'.op = "fs_mount" /\ call'.ret = FS_SUCCESS)]_vars

\* C6: the Disk of a successful disk_open(path, blocks) has blocks equal to
\* the requested count, mounted false, reads 0 and writes 0.
C6_OpenedDiskIsFresh ==
  (call.op = "disk_open" /\ call.ret = 1) =>
    (disk.blocks = call.arg /\ ~disk.mounted /\ disk.reads = 0 /\ disk.writes = 0)

\* C7: after a successful fs_mount the four fields of meta_data equal the
\* superblock stored in block 0.
C7_MetaDataIsTheSuperBlock ==
  (call.op = "fs_mount" /\ ~crashed /\ call.ret = FS_SUCCESS) =>
    fs.meta_data = SuperOf(image[0])

\* the blocks an inode reaches: its nonzero direct pointers, its indirect
\* pointer and the nonzero entries of its indirect block
Reaches(img, ino) ==
  {b \in 0 .. (fs.meta_data.blocks - 1) :
     \/ \E j \in DOMAIN ino.direct : ino.direct[j] = b /\ b # 0
     \/ ino.indirect = b /\ b # 0
     \/ /\ ino.indirect # 0
        /\ ino.indirect < FileBlocks(img)
        /\ \E w \in Words : img[ino.indirect][w] = b /\ b # 0}

\* the inodes of the inode table whose valid field is set
ValidSlots(img) ==
  {i \in 0 .. (fs_get_total_inodes(fs) - 1) : DiskInode(img, i).valid # 0}

\* C8: after a successful fs_mount, for every block b below meta_data.blocks,
\* free_blocks[b] is true exactly when b is not block 0, not a block of the
\* inode table and not reached by an inode whose valid field is set.
C8_FreeBlocksAreTheUnreachedBlocks ==
  (call.op = "fs_mount" /\ ~crashed /\ call.ret = FS_SUCCESS) =>
    \A b \in 0 .. (fs.meta_data.blocks - 1) :
      fs.free_blocks.at[b] =
        ~(\/ b = 0
          \/ (1 <= b /\ b < 1 + fs.meta_data.inode_blocks)
          \/ \E i \in ValidSlots(image) : b \in Reaches(image, DiskInode(image, i)))

\* C8 witness: a mount has succeeded on an image where a file reaches a data
\* block only through an entry of its indirect block
C8_Witness ==
  /\ call.op = "fs_mount" /\ ~crashed /\ call.ret = FS_SUCCESS
  /\ \E i \in ValidSlots(image) :
       LET ino == DiskInode(image, i) IN
       /\ ino.indirect # 0
       /\ \E b \in Reaches(image, ino) :
            b # ino.indirect /\ b > fs.meta_data.inode_blocks
              /\ \A j \in DOMAIN ino.direct : ino.direct[j] # b

\* C9: on a mounted filesystem, after the mount and after any fs_create calls,
\* free_inodes[i] is true exactly when the on-disk inode of slot i has
\* valid == 0.
C9_FreeInodesAreTheInvalidSlots ==
  IsMounted =>
    \A i \in DOMAIN fs.free_inodes.at :
      fs.free_inodes.at[i] = (DiskInode(image, i).valid = 0)

\* C10: when fs_mount fails at a step after the mounted check, then on return
\* the disk is not mounted, the filesystem does not refer to the disk and
\* holds no bitmap.
C10_FailedMountRollsBack ==
  (call.op = "fs_mount" /\ ~crashed /\ call.ret = FS_FAILURE
     /\ call.log # <<"disk is already mounted">>) =>
    (~disk.mounted /\ fs.disk = "NULL" /\ fs.free_blocks.null /\ fs.free_inodes.null)

\* C11: fs_unmount on a mounted filesystem leaves disk.mounted false, the
\* filesystem without a disk and without bitmaps; of two fs_unmount calls in a
\* row the second changes nothing; and an fs_mount that follows an fs_unmount
\* is not refused for the disk being mounted.
C11_UnmountDetaches ==
  [][/\ (IsMounted /\ call'.op = "fs_unmount") =>
          (/\ ~disk'.mounted
           /\ fs'.disk = "NULL"
           /\ fs'.free_blocks.null
           /\ fs'.free_inodes.null)
     /\ (call.op = "fs_unmount" /\ call'.op = "fs_unmount") =>
          (fs' = fs /\ disk' = disk /\ image' = image)
     /\ (call.op = "fs_unmount" /\ call'.op = "fs_mount" /\ ~crashed') =>
          call'.log # <<"disk is already mounted">>]_vars

\* the superblock of a formatted disk of n blocks
FormattedSuper(n) ==
  [magic_number |-> MAGIC_NUMBER, blocks |-> n,
   inode_blocks |-> CeilDiv(n, InodeRatio),
   inodes |-> CeilDiv(n, InodeRatio) * INODES_PER_BLOCK]

\* C12: fs_format on an open, unmounted disk of N blocks returns true and
\* leaves block 0 holding the superblock of N blocks (MAGIC_NUMBER, N,
\* ceil(N/10), ceil(N/10) * INODES_PER_BLOCK) and every other block zero; an
\* fs_mount right after a successful fs_format, its transfers succeeding,
\* returns success with meta_data equal to that superblock.
C12_FormatRoundTrip ==
  [][/\ (call'.op = "fs_format" /\ ~disk.mounted /\ disk_sanity_check(disk, FALSE, 0)) =>
          (/\ call'.ret = 1
           /\ SuperOf(image'[0]) = FormattedSuper(disk.blocks)
           /\ \A b \in 1 .. (disk.blocks - 1) : image'[b] = ZeroBlock)
     /\ (call.op = "fs_format" /\ call.ret = 1 /\ call'.op = "fs_mount"
           /\ ~crashed' /\ ~call'.iofail /\ ~fs'.free_inodes.null) =>
          (call'.ret = FS_SUCCESS /\ fs'.meta_data = FormattedSuper(disk.blocks))]_vars

\* C13: a disk_read or disk_write of a block whose number is not below
\* disk.blocks (block == disk.blocks included) returns DISK_FAILURE and leaves
\* the backing file as it was.
C13_GateRefusesBlocksBeyondTheDisk ==
  [][(call'.op \in {"disk_read", "disk_write"} /\ call'.arg >= disk.blocks) =>
       (call'.ret = DISK_FAILURE /\ image' = image)]_vars

\* C14: a disk_read or disk_write returns, and transfers, what the same call
\* returns and transfers on a Disk that differs only in reads and writes.
C14_CountersAreObservational ==
  [][\A rd \in 0 .. 1 : \A wr \in 0 .. 1 :
       LET other == [disk EXCEPT !.reads = rd, !.writes = wr] IN
       /\ call'.op = "disk_read" =>
            LET r == disk_read(other, FALSE, image, call'.arg, FALSE) IN
            call'.ret = r.ret /\ call'.data = r.data
       /\ call'.op = "disk_write" =>
            LET w == disk_write(other, FALSE, image, call'.arg, call'.data, -1) IN
            call'.ret = w.ret /\ image' = w.image]_vars

\* C15: fs_debug leaves every block of the backing file and disk.mounted as
\* they were, whatever the disk holds and wherever its reads fail.
C15_DebugLeavesTheDiskAlone ==
  [][call'.op = "fs_debug" => (image' = image /\ disk'.mounted = disk.mounted)]_vars

\* C15 witness: fs_debug has printed the inodes of an inode block that holds
\* a valid inode and was then stopped by a read that failed
C15_Witness ==
  /\ call.op = "fs_debug"
  /\ call.iofail
  /\ \E p \in DOMAIN call.data : call.data[p] # 0
  /\ SuperOf(image[0]).inode_blocks > 1

\* C16: on a mounted filesystem, fs_read of Len(ReadBuffer) bytes at offset 0
\* of an inode that is valid and at least that long returns the length, and
\* when the call before it was an fs_write of those bytes to that inode which
\* returned their number, the buffer holds the bytes written.
C16_ReadAfterWrite ==
  [][(/\ IsMounted
      /\ call'.op = "fs_read"
      /\ call'.arg < fs_get_total_inodes(fs)
      /\ DiskInode(image, call'.arg).valid = 1
      /\ Len(ReadBuffer) <= DiskInode(image, call'.arg).size) =>
       (/\ call'.ret = Len(ReadBuffer)
        /\ (call.op = "fs_write" /\ call.arg = call'.arg /\ call.ret = Len(WriteBuffer)) =>
             call'.data = call.data)]_vars

\* the number of blocks free_blocks marks free
FreeBlocksCount(f) ==
  Cardinality({b \in DOMAIN f.free_blocks.at : f.free_blocks.at[b]})

\* C17: fs_remove(n) called right after fs_create returned n returns true and
\* leaves as many blocks free as there were (fs_create takes no block); after
\* a successful fs_remove(n), fs_stat(n) returns -1, and an fs_create whose
\* transfers succeed returns an inode again, none above n.
C17_RemoveUndoesCreate ==
  [][/\ (call.op = "fs_create" /\ call.ret # FS_FAILURE
           /\ call'.op = "fs_remove" /\ call'.arg = call.ret) =>
          (call'.ret = 1 /\ FreeBlocksCount(fs') = FreeBlocksCount(fs))
     /\ (call.op = "fs_remove" /\ call.ret = 1
           /\ call'.op = "fs_stat" /\ call'.arg = call.arg) =>
          call'.ret = -1
     /\ (call.op = "fs_remove" /\ call.ret = 1
           /\ call'.op = "fs_create" /\ ~crashed' /\ ~call'.iofail) =>
          (call'.log = << >> /\ call'.ret <= call.arg)]_vars

\* an fs_create that returned the inode it created
CreatedNow ==
  call'.op = "fs_create" /\ ~crashed' /\ ~call'.iofail /\ call'.log = << >>

\* C19: after a successful fs_create returning n, the on-disk inode of slot n
\* has valid 1, size 0, every direct pointer 0 and indirect 0, whatever the
\* slot held before.
C19_CreatedInodeIsZeroed ==
  [][CreatedNow => DiskInode(image', call'.ret) = Inode(1, 0, << >>, 0)]_vars

\* the blocks two distinct inodes with their valid field set both reach
DuplicateBlocks(img) ==
  {b \in 0 .. (fs.meta_data.blocks - 1) :
     \E i \in ValidSlots(img) : \E j \in ValidSlots(img) :
       /\ i # j
       /\ b \in Reaches(img, DiskInode(img, i))
       /\ b \in Reaches(img, DiskInode(img, j))}

\* the messages of a log
Logged(c) == {c.log[k] : k \in DOMAIN c.log}

\* C20: when two distinct valid inodes of the image reach the same block, an
\* fs_mount is not failed by the block scan unless a read or the allocation
\* failed, and after a successful fs_mount free_blocks is false for that block
\* and for every block a valid inode of any slot reaches.
C20_DuplicateBlockDoesNotStopTheScan ==
  (call.op = "fs_mount" /\ ~crashed /\ DuplicateBlocks(image) # {}) =>
    /\ call.ret = FS_FAILURE =>
         \/ call.iofail
         \/ fs.free_blocks.null
         \/ "failed on fs_build_free_block_map" \notin Logged(call)
    /\ call.ret = FS_SUCCESS =>
         /\ \A b \in DuplicateBlocks(image) : fs.free_blocks.at[b] = FALSE
         /\ \A i \in ValidSlots(image) :
              \A b \in Reaches(image, DiskInode(image, i)) : fs.free_blocks.at[b] = FALSE

\* C20 witness: a mount has succeeded on an image where two valid inodes
\* reach the same data block
C20_Witness ==
  /\ call.op = "fs_mount" /\ ~crashed /\ call.ret = FS_SUCCESS
  /\ \E b \in DuplicateBlocks(image) : b > fs.meta_data.inode_blocks

OwnBlocks(img, i) ==
  {b \in Reaches(img, DiskInode(img, i)) :
     /\ b > fs.meta_data.inode_blocks
     /\ \A j \in 0 .. (fs_get_total_inodes(fs) - 1) :
          j # i => b \notin Reaches(img, DiskInode(img, j))}

\* C22: after a successful fs_mount the three passes agree on the valid
\* inodes: meta_data.inodes counts the slots free_inodes marks unavailable, and
\* a slot that reaches blocks of its own is marked unavailable exactly when
\* free_blocks marks those blocks in use.
C22_MountPassesAgreeOnValidity ==
  (call.op = "fs_mount" /\ ~crashed /\ call.ret = FS_SUCCESS) =>
    /\ fs.meta_data.inodes =
         Cardinality({i \in DOMAIN fs.free_inodes.at :
                        fs.free_inodes.at[i] = INODE_UNAVAILABLE})
    /\ \A i \in DOMAIN fs.free_inodes.at :
         OwnBlocks(image, i) # {} =>
           ((fs.free_inodes.at[i] = INODE_UNAVAILABLE)
              <=> (\A b \in OwnBlocks(image, i) : fs.free_blocks.at[b] = FALSE))

\* C23: a successful fs_create returning n leaves every block of the file but
\* the block of slot n as it was, in that block every inode but inode n, the
\* free_blocks bitmap, and every entry of free_inodes but entry n.
C23_CreateChangesOneInode ==
  [][CreatedNow =>
       LET n == call'.ret IN
       /\ DOMAIN image' = DOMAIN image
       /\ \A b \in DOMAIN image : b # SlotBlock(n) => image'[b] = image[b]
       /\ \A j \in 0 .. (INODES_PER_BLOCK - 1) :
            j # n % INODES_PER_BLOCK =>
              InodeOf(image'[SlotBlock(n)], j) = InodeOf(image[SlotBlock(n)], j)
       /\ fs'.free_blocks = fs.free_blocks
       /\ DOMAIN fs'.free_inodes.at = DOMAIN fs.free_inodes.at
       /\ \A i \in DOMAIN fs.free_inodes.at :
            i # n => fs'.free_inodes.at[i] = fs.free_inodes.at[i]
       /\ fs'.free_inodes.at[n] # fs.free_inodes.at[n]]_vars

\* C23 witness: on a mounted filesystem fs_create has returned an inode whose
\* block holds a file in another slot, with blocks marked in use
C23_Witness ==
  /\ IsMounted
  /\ call.op = "fs_create" /\ ~call.iofail /\ call.log = << >>
  /\ \E j \in 0 .. (INODES_PER_BLOCK - 1) :
       /\ j # call.ret % INODES_PER_BLOCK
       /\ InodeOf(image[SlotBlock(call.ret)], j).valid = 1
       /\ InodeOf(image[SlotBlock(call.ret)], j).direct[0] # 0
  /\ \E b \in DOMAIN fs.free_blocks.at : b > fs.meta_data.inode_blocks /\ ~fs.free_blocks.at[b]

\* C24: in an fs_mount no index at which the scan stores into free_blocks is
\* at or beyond meta_data.blocks (the number of an indirect block is such an
\* index: it is stored at before the block is read), and no store lands
\* outside the allocation.
C24_ScanStaysInsideTheBitmap ==
  call.op = "fs_mount" => (call.oob = {} /\ ~call.ub)

====
